---- MODULE Spec2Model ----
(***************************************************************************)
(* Model of the advisor page's calendar pipeline                           *)
(* (frontend/assets/chatbot.js): parseTime, the validation loop of         *)
(* renderCalendar, detectConflicts and the grid placement.                 *)
(*                                                                         *)
(* Strings are sequences of one-character strings, so that parseTime is    *)
(* modelled by what String.split and Number.parseInt do.  A JavaScript     *)
(* number is a record [nan, v]: NaN is [nan |-> TRUE, v |-> 0].            *)
(***************************************************************************)
EXTENDS Integers, Sequences, FiniteSets, TLC

\* ------------------------------------------------------------------ bounds
\* Largest number of entries in a payload of the conflict specification.
MaxEntries == 3
\* Largest number of entries in a payload of the grid specification.
MaxGridEntries == 2
\* Longest input string of the parseTime specification.
MaxStrLen == 4
\* Largest number of entries in a payload of the re-rendering specification.
MaxRerenderEntries == 2
\* Largest number of renderCalendar calls in the re-rendering specification.
MaxCalls == 2
\* Largest number of automatic redirects followed in one visit.
MaxHops == 4
\* Largest number of chat requests counted.
MaxRequests == 3
\* Largest number of entries in the schedule of a chat reply.
MaxReplyEntries == 1
\* Largest number of theme events (toggles, system changes, reloads) counted.
MaxThemeEvents == 4
\* Largest minute value handed to formatTime in the round-trip specification.
MaxMinute == 1439

\* --------------------------------------------------------------- constants
DAY_ORDER == <<"sun", "mon", "tue", "wed", "thu", "fri", "sat">>

\* Width of one calendar slot in minutes (the literal 30 of renderCalendar).
SlotMinutes == 30

Days == {DAY_ORDER[i] : i \in 1..Len(DAY_ORDER)}

\* ----------------------------------------------------------------- numbers
NaN == [nan |-> TRUE, v |-> 0]

Num(n) == [nan |-> FALSE, v |-> n]

\* Number.isNaN
IsNaN(x) == x.nan

\* a * k + b on JavaScript numbers: NaN is absorbing.
MulAdd(a, k, b) == IF a.nan \/ b.nan THEN NaN ELSE Num(a.v * k + b.v)

\* Math.floor(x / d) * d for integer x and d > 0 (\div rounds towards minus infinity).
FloorTo(x, d) == (x \div d) * d

\* Math.ceil(x / d) for integer x and d > 0.
CeilDiv(x, d) == -((-x) \div d)

\* Math.ceil(x / d) * d
CeilTo(x, d) == CeilDiv(x, d) * d

\* ----------------------------------------------------------------- strings
Digits == {"0", "1", "2", "3", "4", "5", "6", "7", "8", "9"}

DigitVal(c) ==
    CASE c = "0" -> 0 [] c = "1" -> 1 [] c = "2" -> 2 [] c = "3" -> 3
      [] c = "4" -> 4 [] c = "5" -> 5 [] c = "6" -> 6 [] c = "7" -> 7
      [] c = "8" -> 8 [] c = "9" -> 9

\* The parts of String.prototype.split(":"): always at least one part.
RECURSIVE Split(_)
Split(s) ==
    IF \A i \in 1..Len(s) : s[i] /= ":"
    THEN <<s>>
    ELSE LET k == CHOOSE i \in 1..Len(s) :
                      /\ s[i] = ":"
                      /\ \A j \in 1..(i - 1) : s[j] /= ":"
         IN  <<SubSeq(s, 1, k - 1)>> \o Split(SubSeq(s, k + 1, Len(s)))

\* Leading white space skipped by parseInt.
RECURSIVE TrimLeft(_)
TrimLeft(s) == IF s /= << >> /\ s[1] = " " THEN TrimLeft(Tail(s)) ELSE s

\* Value of the longest prefix of decimal digits, acc being the value so far.
RECURSIVE DigitsValue(_, _)
DigitsValue(s, acc) ==
    IF s /= << >> /\ s[1] \in Digits
    THEN DigitsValue(Tail(s), acc * 10 + DigitVal(s[1]))
    ELSE acc

\* Number.parseInt(s, 10): white space, an optional sign, then digits; the
\* rest of the string is ignored; NaN when no digit follows the sign.
ParseInt(s) ==
    LET t    == TrimLeft(s)
        neg  == t /= << >> /\ t[1] = "-"
        body == IF t /= << >> /\ t[1] \in {"-", "+"} THEN Tail(t) ELSE t
    IN  IF body = << >> \/ body[1] \notin Digits
        THEN NaN
        ELSE Num((IF neg THEN -1 ELSE 1) * DigitsValue(body, 0))

\* parseTime with every non-numeric part read as 0 (a variant of parseTime).
parseTimeLenient(value) ==
    LET parts   == Split(value)
        hours   == ParseInt(parts[1])
        minutes == IF Len(parts) >= 2 THEN ParseInt(parts[2]) ELSE Num(0)
    IN  Num((IF hours.nan THEN 0 ELSE hours.v) * 60
            + (IF minutes.nan THEN 0 ELSE minutes.v))

\* parseTime: the destructuring defaults apply to a missing part only.
parseTime(value) ==
    LET parts   == Split(value)
        hours   == parts[1]
        minutes == IF Len(parts) >= 2 THEN parts[2] ELSE <<"0">>
    IN  MulAdd(ParseInt(hours), 60, ParseInt(minutes))

\* The decimal digits of a natural number.
RECURSIVE NatDigits(_)
NatDigits(n) ==
    LET last == <<"0", "1", "2", "3", "4", "5", "6", "7", "8", "9">>[(n % 10) + 1]
    IN  IF n < 10 THEN <<last>> ELSE NatDigits(n \div 10) \o <<last>>

\* String(n) for an integer n.
NumberToString(n) == IF n < 0 THEN <<"-">> \o NatDigits(-n) ELSE NatDigits(n)

\* String.prototype.padStart(2, "0")
PadStart2(s) == IF Len(s) >= 2 THEN s ELSE <<"0">> \o s

\* The % of JavaScript: the remainder has the sign of the dividend.
Remainder(a, b) == IF a >= 0 THEN a % b ELSE -((-a) % b)

\* formatTime with the hour rounded to the nearest (a variant of formatTime).
formatTimeRounded(minutes) ==
    PadStart2(NumberToString((minutes + 30) \div 60)) \o <<":">>
        \o PadStart2(NumberToString(Remainder(minutes, 60)))

\* formatTime: Math.floor(minutes / 60) and minutes % 60, each padded to two.
formatTime(minutes) ==
    PadStart2(NumberToString(minutes \div 60)) \o <<":">>
        \o PadStart2(NumberToString(Remainder(minutes, 60)))


\* ------------------------------------------------------------------- state
VARIABLES
    schedule,   \* data.schedule of the backend response: day |-> entries
    view,       \* what calendarContainer shows: "initial", "placeholder", "shell"
    events,     \* the events renderCalendar retained, with their conflict marks
    calendarStart, \* first minute of the grid (0 while no grid is built)
    calendarEnd,   \* minute the grid ends before (0 while no grid is built)
    slots,      \* the slot start times of the grid
    blocks,     \* one calendar-event block per placed event
    banner,     \* whether the conflict-banner element is shown
    calls,      \* how many times renderCalendar has been called
    clockPc,    \* the clock functions' position: "idle", "minutes", "text", "parsed"
    clockIn,    \* the argument of formatTime
    clockText,  \* a clock string: formatTime's result, parseTime's argument
    clockOut,   \* the number parseTime returned
    page,       \* the document shown: "index", "setup", "settings", "advisor"
    phase,      \* "loading" while the page's scripts have not run, then "ready"
    loggedIn,   \* localStorage.loggedIn: "absent", "empty", "1" or "other"
    setup,      \* localStorage.setup: its kind and, for a payload, the student
    chat,       \* "on" once chatbot.js runs past ensureAuth, else "off"
    requests,   \* the POST requests sent to the backend
    hops,       \* the automatic redirects of the visit so far
    visit,      \* the visit: the page opened and the storage found
    themeStored,   \* localStorage.theme: "absent", "empty", "light", "dark", "other"
    themeApplied,  \* documentElement.dataset.theme, "unset" before theme.js runs
    systemDark,    \* prefersDark.matches
    themeStatus,   \* the aria-live text: the theme last announced, or ""
    themeEvents,   \* the theme events so far
    checked,       \* the day checkboxes that are checked
    timeRows,      \* the time row of each selected day: the values of its inputs
    credits,       \* creditsInput.value
    gradTerm,      \* gradSelect.value
    toInvalid,     \* the days whose end input holds a custom validity message
    guardInvalid,  \* HIDDEN_VALIDATION_INPUT holds a custom validity message
    lastSubmit,    \* what the submit since the last edit did, or "none"
    composerDisabled,  \* messageInput.disabled and sendButton.disabled
    typingShown,       \* the typing indicators in the chat log
    typingIndicator,   \* "element" while the variable holds an indicator, else "null"
    chatLog,           \* the bubbles of the chat log, oldest first
    inflight           \* the messages whose request awaits its outcome

calVars == <<schedule, view, events, calendarStart, calendarEnd, slots, blocks, banner, calls>>

clockVars == <<clockPc, clockIn, clockText, clockOut>>

siteVars == <<page, phase, loggedIn, setup, chat, requests, hops, visit>>

themeVars == <<themeStored, themeApplied, systemDark, themeStatus, themeEvents>>

formVars == <<checked, timeRows, credits, gradTerm, toInvalid, guardInvalid, lastSubmit>>

chatVars == <<composerDisabled, typingShown, typingIndicator, chatLog, inflight>>

vars == <<calVars, clockVars, siteVars, themeVars, formVars, chatVars>>

\* --------------------------------------------------------- detectConflicts
\* The comparison of the adjacent-pair scan.
AdjacentConflictAtLeast(current, next) == current.end >= next.start

AdjacentConflict(current, next) == current.end > next.start

\* eventsByDay with every event in one bucket (a variant of DayList).
DayListUngrouped(evs, day) ==
    IF \E i \in 1..Len(evs) : evs[i].day = day
    THEN [i \in 1..Len(evs) |-> i]
    ELSE << >>

\* eventsByDay.get(day): the indices of the day's events, in input order.
DayList(evs, day) ==
    SelectSeq([i \in 1..Len(evs) |-> i], LAMBDA i : evs[i].day = day)

\* list with x inserted behind every element whose start is <= x's start.
RECURSIVE InsertByStart(_, _, _)
InsertByStart(evs, list, x) ==
    IF list = << >> THEN <<x>>
    ELSE IF evs[list[1]].start - evs[x].start > 0
         THEN <<x>> \o list
         ELSE <<list[1]>> \o InsertByStart(evs, Tail(list), x)

\* The list left in input order (a variant of SortByStart).
SortByStartUnsorted(evs, list) == list

\* list.sort((a, b) => a.start - b.start): stable, ascending by start.
RECURSIVE SortByStart(_, _)
SortByStart(evs, list) ==
    IF list = << >> THEN << >>
    ELSE InsertByStart(evs,
                       SortByStart(evs, SubSeq(list, 1, Len(list) - 1)),
                       list[Len(list)])

\* The positions i of a day's sorted list whose pair (i, i + 1) is marked.
MarkedPairs(evs, list) ==
    {i \in 1..(Len(list) - 1) :
        AdjacentConflict(evs[list[i]], evs[list[i + 1]])}

\* The indices of the events of one day that end with conflict = true.
MarkedOfDay(evs, day) ==
    LET list == SortByStart(evs, DayList(evs, day))
    IN  UNION {{list[i], list[i + 1]} : i \in MarkedPairs(evs, list)}

\* The keys of eventsByDay.
DaysOf(evs) == {evs[i].day : i \in 1..Len(evs)}

\* detectConflicts: the events with their marks, and the returned flag.
detectConflicts(evs) ==
    LET marked == UNION {MarkedOfDay(evs, day) : day \in DaysOf(evs)}
    IN  [events |-> [i \in 1..Len(evs) |->
                        [evs[i] EXCEPT !.conflict = @ \/ i \in marked]],
         conflictFound |->
            \E day \in DaysOf(evs) :
                MarkedPairs(evs, SortByStart(evs, DayList(evs, day))) /= {}]

\* ---------------------------------------------------------- renderCalendar
\* The test of line 186 without its NaN checks (a variant of Dropped).
DroppedUnlessOrdered(start, end) == start.v >= end.v

\* The test of line 186 with > in place of >= (a variant of Dropped).
DroppedKeepsEqual(start, end) == IsNaN(start) \/ IsNaN(end) \/ start.v > end.v

\* The early return of the validation loop.
Dropped(start, end) == IsNaN(start) \/ IsNaN(end) \/ start.v >= end.v

\* The events pushed for the entries of one day, in entry order.
RECURSIVE DayEvents(_, _)
DayEvents(day, entries) ==
    IF entries = << >> THEN << >>
    ELSE LET start == parseTime(entries[1].from)
             end   == parseTime(entries[1].to)
             rest  == DayEvents(day, Tail(entries))
         IN  IF Dropped(start, end)
             THEN rest
             ELSE <<[day |-> day, start |-> start.v, end |-> end.v,
                     conflict |-> FALSE]>> \o rest

\* The events array kept from one call to the next instead of starting
\* empty (a variant of CollectEvents).
RECURSIVE CollectEventsKept(_, _)
CollectEventsKept(sched, i) ==
    IF i > Len(DAY_ORDER) THEN << >>
    ELSE (IF i = 1 THEN events ELSE << >>)
            \o DayEvents(DAY_ORDER[i], sched[DAY_ORDER[i]])
            \o CollectEventsKept(sched, i + 1)

\* The events array after the DAY_ORDER.forEach loop, from day i on.
RECURSIVE CollectEvents(_, _)
CollectEvents(sched, i) ==
    IF i > Len(DAY_ORDER) THEN << >>
    ELSE DayEvents(DAY_ORDER[i], sched[DAY_ORDER[i]]) \o CollectEvents(sched, i + 1)

Min2(a, b) == IF a < b THEN a ELSE b

Max2(a, b) == IF a > b THEN a ELSE b

\* events.reduce(Math.min(min, event.start), +Infinity) for a non-empty array.
RECURSIVE MinStart(_)
MinStart(evs) ==
    IF Len(evs) = 1 THEN evs[1].start
    ELSE Min2(MinStart(SubSeq(evs, 1, Len(evs) - 1)), evs[Len(evs)].start)

\* events.reduce(Math.max(max, event.end), 0)
RECURSIVE MaxEnd(_)
MaxEnd(evs) ==
    IF evs = << >> THEN 0
    ELSE Max2(MaxEnd(SubSeq(evs, 1, Len(evs) - 1)), evs[Len(evs)].end)

CalendarStartCeil(evs) == CeilTo(MinStart(evs), SlotMinutes)

CalendarStart(evs) == FloorTo(MinStart(evs), SlotMinutes)

\* The grid end rounded down to the slot (a variant of CalendarEnd).
CalendarEndFloor(evs) == FloorTo(MaxEnd(evs), SlotMinutes)

CalendarEnd(evs) == CeilTo(MaxEnd(evs), SlotMinutes)

\* for (time = calendarStart; time < calendarEnd; time += 30) slots.push(time)
RECURSIVE Slots(_, _)
Slots(time, gridEnd) ==
    IF time < gridEnd
    THEN <<time>> \o Slots(time + SlotMinutes, gridEnd)
    ELSE << >>

\* DAY_ORDER.indexOf(day) + 1
DayIndex(day) ==
    IF \E i \in 1..Len(DAY_ORDER) : DAY_ORDER[i] = day
    THEN CHOOSE i \in 1..Len(DAY_ORDER) : DAY_ORDER[i] = day
    ELSE 0

\* A placement that moves a conflicting event one column to the right
\* (a variant of Block).
BlockSideBySide(event, gridStart) ==
    [gridColumn |-> DayIndex(event.day) + (IF event.conflict THEN 1 ELSE 0),
     startRow   |-> ((event.start - gridStart) \div SlotMinutes) + 1,
     endRow     |-> CeilDiv(event.end - gridStart, SlotMinutes) + 1,
     conflict   |-> event.conflict,
     time       |-> <<formatTime(event.start), formatTime(event.end)>>]

\* The calendar-event block of one event: its column, its rows, its mark.
Block(event, gridStart) ==
    [gridColumn |-> DayIndex(event.day),
     startRow   |-> ((event.start - gridStart) \div SlotMinutes) + 1,
     endRow     |-> CeilDiv(event.end - gridStart, SlotMinutes) + 1,
     conflict   |-> event.conflict,
     time       |-> <<formatTime(event.start), formatTime(event.end)>>]

\* events.forEach of lines 238-258: events of no known day get no block.
Blocks(evs, gridStart) ==
    LET placed == SelectSeq(evs, LAMBDA e : DayIndex(e.day) > 0)
    IN  [i \in 1..Len(placed) |-> Block(placed[i], gridStart)]

renderCalendar(sched) ==
    LET collected == CollectEvents(sched, 1)
    IN  /\ calls' = calls + 1
        /\ IF collected = << >>
           THEN /\ view' = "placeholder"
                /\ events' = << >>
                /\ calendarStart' = 0
                /\ calendarEnd' = 0
                /\ slots' = << >>
                /\ blocks' = << >>
                /\ banner' = FALSE
           ELSE LET detected == detectConflicts(collected)
                IN  /\ view' = "shell"
                    /\ events' = detected.events
                    /\ calendarStart' = CalendarStart(collected)
                    /\ calendarEnd' = CalendarEnd(collected)
                    /\ slots' = Slots(calendarStart', calendarEnd')
                    /\ blocks' = Blocks(detected.events, calendarStart')
                    /\ banner' = detected.conflictFound

\* ------------------------------------------------------------------- inputs
T0900 == <<"0", "9", ":", "0", "0">>

T0915 == <<"0", "9", ":", "1", "5">>

T1000 == <<"1", "0", ":", "0", "0">>

T1001 == <<"1", "0", ":", "0", "1">>

T1100 == <<"1", "1", ":", "0", "0">>

T1150 == <<"1", "1", ":", "5", "0">>

Bad == <<"b", "a", "d">>

\* Clock strings of the conflict specification.
ConflictTimes == {T0900, T1000, T1001, T1100}

ConflictDays == {"mon", "tue"}

T2359 == <<"2", "3", ":", "5", "9">>

T2400 == <<"2", "4", ":", "0", "0">>

T2530 == <<"2", "5", ":", "3", "0">>

\* Digit strings around the end of the day (the range specification).
RangeTimes == {T0900, T2359, T2400, T2530}

\* Strings of the grid specification: off-slot times and a malformed one.
GridTimes == {Bad, T0915, T1000, T1150}

\* The entries of a payload in DAY_ORDER, each with the key it is stored under.
TaggedEntries(dayset, strs) == [day : dayset, from : strs, to : strs]

\* Entries listed day by day, in the order of DAY_ORDER.
InDayOrder(tagged) ==
    \A i \in 1..(Len(tagged) - 1) :
        DayIndex(tagged[i].day) <= DayIndex(tagged[i + 1].day)

\* The payload: a day without entries stands for a missing key as well.
ToSchedule(tagged) ==
    [day \in Days |->
        LET mine == SelectSeq(tagged, LAMBDA e : e.day = day)
        IN  [i \in 1..Len(mine) |-> [from |-> mine[i].from, to |-> mine[i].to]]]

\* schedule is a payload of at most n entries, on days of dayset only.
IsPayload(dayset, strs, n) ==
    \E k \in 0..n :
        \E tagged \in [1..k -> TaggedEntries(dayset, strs)] :
            /\ InDayOrder(tagged)
            /\ schedule = ToSchedule(tagged)

\* ---------------------------------------------------------- specifications
InitView ==
    /\ view = "initial"
    /\ events = << >>
    /\ calendarStart = 0
    /\ calendarEnd = 0
    /\ slots = << >>
    /\ blocks = << >>
    /\ banner = FALSE
    /\ calls = 0

\* The clock functions are not being exercised on their own.
ClockIdle ==
    /\ clockPc = "idle"
    /\ clockIn = 0
    /\ clockText = << >>
    /\ clockOut = Num(0)

\* No schedule has arrived.
CalendarIdle ==
    /\ schedule = [day \in Days |-> << >>]
    /\ InitView

\* ------------------------------------------------------------ localStorage
\* A student record without preferences.
NoStudent ==
    [preferredDays |-> {}, timeBlocks |-> << >>, credits |-> 0, gradTerm |-> ""]

\* A value of localStorage.setup.  kind is "absent" (no key), "empty" (the
\* empty string), "payload" (JSON of a truthy value without reset = true),
\* "null" (JSON of a falsy value), "corrupt" (not JSON) or "reset" (JSON
\* of an object with reset = true).
Stored(kind, student) == [kind |-> kind, student |-> student]

SetupKinds == {"absent", "empty", "payload", "null", "corrupt", "reset"}

LoggedInValues == {"absent", "empty", "1", "other"}

\* getItem(key) is a non-empty string.
Truthy(value) == value \notin {"absent", "empty"}

\* alreadyLoggedIn testing for the presence of the key (a variant of
\* alreadyLoggedIn).
alreadyLoggedInPresent(li) == li /= "absent"

\* alreadyLoggedIn of theme.js
alreadyLoggedIn(li) == li = "1"

\* loadStoredSetup with the reset test inverted (a variant of loadStoredSetup).
loadStoredSetupInverted(st) ==
    CASE st.kind \in {"absent", "empty"} -> [saved |-> FALSE, removes |-> FALSE]
      [] st.kind = "corrupt" -> [saved |-> FALSE, removes |-> TRUE]
      [] st.kind = "reset" -> [saved |-> TRUE, removes |-> FALSE]
      [] st.kind = "null" -> [saved |-> FALSE, removes |-> FALSE]
      [] st.kind = "payload" -> [saved |-> FALSE, removes |-> TRUE]

\* loadStoredSetup: whether the result is truthy, and whether the key is removed.
loadStoredSetup(st) ==
    CASE st.kind \in {"absent", "empty"} -> [saved |-> FALSE, removes |-> FALSE]
      [] st.kind = "corrupt" -> [saved |-> FALSE, removes |-> TRUE]
      [] st.kind = "reset" -> [saved |-> FALSE, removes |-> TRUE]
      [] st.kind = "null" -> [saved |-> FALSE, removes |-> FALSE]
      [] st.kind = "payload" -> [saved |-> TRUE, removes |-> FALSE]

\* localStorage.setup after loadStoredSetup.
AfterLoad(st) ==
    IF loadStoredSetup(st).removes THEN Stored("absent", NoStudent) ELSE st

\* ensureAuth testing for the presence of loggedIn (a variant of ensureAuth).
ensureAuthPresent(li, st) ==
    IF ~Truthy(li) THEN "index.html"
    ELSE IF st.kind \in {"absent", "empty"} THEN "setup.html"
    ELSE "ok"

\* ensureAuth: the page to redirect to, or "ok" when the setup is returned.
ensureAuth(li, st) ==
    IF li /= "1" THEN "index.html"
    ELSE IF st.kind \in {"absent", "empty"} THEN "setup.html"
    ELSE "ok"

\* No page of the site is being visited.
SiteIdle ==
    /\ page = "advisor"
    /\ phase = "ready"
    /\ loggedIn = "1"
    /\ setup = Stored("payload", NoStudent)
    /\ chat = "on"
    /\ requests = 0
    /\ hops = 0
    /\ visit = [page |-> "advisor", loggedIn |-> "1", setup |-> Stored("payload", NoStudent)]

\* The composer as the advisor page shows it before any message.
ChatIdle ==
    /\ composerDisabled = FALSE
    /\ typingShown = 0
    /\ typingIndicator = "null"
    /\ chatLog = << >>
    /\ inflight = {}

\* No form is shown.
FormIdle ==
    /\ checked = {}
    /\ timeRows = << >>
    /\ credits = << >>
    /\ gradTerm = ""
    /\ toInvalid = {}
    /\ guardInvalid = FALSE
    /\ lastSubmit = "none"

\* The page shows the light theme of a light system, nothing stored.
ThemeIdle ==
    /\ themeStored = "absent"
    /\ themeApplied = "light"
    /\ systemDark = FALSE
    /\ themeStatus = ""
    /\ themeEvents = 0

Init ==
    /\ IsPayload(ConflictDays, ConflictTimes, MaxEntries)
    /\ InitView
    /\ ClockIdle
    /\ SiteIdle
    /\ ThemeIdle
    /\ FormIdle
    /\ ChatIdle

InitGrid ==
    /\ IsPayload(Days, GridTimes, MaxGridEntries)
    /\ InitView
    /\ ClockIdle
    /\ SiteIdle
    /\ ThemeIdle
    /\ FormIdle
    /\ ChatIdle

\* The response handler of sendMessage: if (data.schedule) renderCalendar(...)
Respond ==
    /\ view = "initial"
    /\ renderCalendar(schedule)
    /\ UNCHANGED schedule
    /\ UNCHANGED <<clockVars, siteVars, themeVars, formVars, chatVars>>

Next == Respond

Spec == Init /\ [][Next]_vars

SpecGrid == InitGrid /\ [][Next]_vars

InitRange ==
    /\ IsPayload(ConflictDays, RangeTimes, MaxGridEntries)
    /\ InitView
    /\ ClockIdle
    /\ SiteIdle
    /\ ThemeIdle
    /\ FormIdle
    /\ ChatIdle

SpecRange == InitRange /\ [][Next]_vars

\* Clock strings of the re-rendering specification.
RerenderTimes == {T0900, T1000}

InitRerender ==
    /\ IsPayload(ConflictDays, RerenderTimes, MaxRerenderEntries)
    /\ InitView
    /\ ClockIdle
    /\ SiteIdle
    /\ ThemeIdle
    /\ FormIdle
    /\ ChatIdle

\* A later response with a schedule: renderCalendar is called again.
Rerender ==
    /\ view /= "initial"
    /\ calls < MaxCalls
    /\ \E k \in 0..MaxRerenderEntries :
          \E tagged \in [1..k -> TaggedEntries(ConflictDays, RerenderTimes)] :
              /\ InDayOrder(tagged)
              /\ schedule' = ToSchedule(tagged)
    /\ renderCalendar(schedule')
    /\ UNCHANGED <<clockVars, siteVars, themeVars, formVars, chatVars>>

NextRerender == Respond \/ Rerender

SpecRerender == InitRerender /\ [][NextRerender]_vars

\* ------------------------------------------------- parseTime and formatTime
\* The characters of the input strings of parseTime.
ParseAlphabet == {"1", "5", ":", "b", "-", " "}

InitParse ==
    /\ CalendarIdle
    /\ clockPc = "text"
    /\ clockIn = 0
    /\ \E n \in 0..MaxStrLen : clockText \in [1..n -> ParseAlphabet]
    /\ clockOut = Num(0)
    /\ SiteIdle
    /\ ThemeIdle
    /\ FormIdle
    /\ ChatIdle

InitFormat ==
    /\ CalendarIdle
    /\ clockPc = "minutes"
    /\ clockIn \in 0..MaxMinute
    /\ clockText = << >>
    /\ clockOut = Num(0)
    /\ SiteIdle
    /\ ThemeIdle
    /\ FormIdle
    /\ ChatIdle

\* A call of formatTime.
Format ==
    /\ clockPc = "minutes"
    /\ clockText' = formatTime(clockIn)
    /\ clockPc' = "text"
    /\ UNCHANGED <<clockIn, clockOut>>
    /\ UNCHANGED <<calVars, siteVars, themeVars, formVars, chatVars>>

\* A call of parseTime.
Parse ==
    /\ clockPc = "text"
    /\ clockOut' = parseTime(clockText)
    /\ clockPc' = "parsed"
    /\ UNCHANGED <<clockIn, clockText>>
    /\ UNCHANGED <<calVars, siteVars, themeVars, formVars, chatVars>>

NextParse == Parse

NextFormat == Format \/ Parse

SpecParse == InitParse /\ [][NextParse]_vars

SpecFormat == InitFormat /\ [][NextFormat]_vars


\* ----------------------------------------------------------------- routing
Pages == {"index", "setup", "settings", "advisor"}

SetupContents == {Stored(kind, NoStudent) : kind \in SetupKinds}

\* window.location.replace(target): the target document loads next.
Redirect(target) ==
    /\ hops < MaxHops
    /\ page' = target
    /\ phase' = "loading"
    /\ chat' = "off"
    /\ hops' = hops + 1

\* The scripts of the page ran to their end without a redirect.
Settle ==
    /\ page' = page
    /\ phase' = "ready"
    /\ hops' = hops

\* The user opens a page: a new visit with the storage as it is.
Open(target, li, st) ==
    /\ page' = target
    /\ phase' = "loading"
    /\ chat' = "off"
    /\ hops' = 0
    /\ visit' = [page |-> target, loggedIn |-> li, setup |-> st]

\* A visit of any page with any content of the two storage keys.
InitRouting ==
    /\ page \in Pages
    /\ phase = "loading"
    /\ loggedIn \in LoggedInValues
    /\ setup \in SetupContents
    /\ chat = "off"
    /\ requests = 0
    /\ hops = 0
    /\ visit = [page |-> page, loggedIn |-> loggedIn, setup |-> setup]
    /\ CalendarIdle
    /\ ClockIdle
    /\ ThemeIdle
    /\ FormIdle
    /\ ChatIdle

\* index.html loads: the landing redirect of theme.js.
LoadIndex ==
    /\ page = "index"
    /\ phase = "loading"
    /\ IF alreadyLoggedIn(loggedIn)
       THEN Redirect("setup")
       ELSE Settle /\ chat' = chat
    /\ UNCHANGED <<loggedIn, setup, requests, visit>>
    /\ UNCHANGED <<calVars, clockVars, themeVars, formVars, chatVars>>

\* setup.html loads: guardRouting, then init.
LoadSetup ==
    /\ page = "setup"
    /\ phase = "loading"
    /\ IF ~Truthy(loggedIn)
       THEN Redirect("index") /\ setup' = setup
       ELSE /\ setup' = AfterLoad(setup)
            /\ IF loadStoredSetup(setup).saved
               THEN Redirect("advisor")
               ELSE Settle /\ chat' = chat
    /\ UNCHANGED <<loggedIn, requests, visit>>
    /\ UNCHANGED <<calVars, clockVars, themeVars, formVars, chatVars>>

\* settings.html loads: guardRouting, then init.
LoadSettings ==
    /\ page = "settings"
    /\ phase = "loading"
    /\ setup' = AfterLoad(setup)
    /\ IF ~loadStoredSetup(setup).saved
       THEN Redirect("setup")
       ELSE Settle /\ chat' = chat
    /\ UNCHANGED <<loggedIn, requests, visit>>
    /\ UNCHANGED <<calVars, clockVars, themeVars, formVars, chatVars>>

\* advisor.html loads: ensureAuth, then the chat starts or the script throws.
LoadAdvisor ==
    /\ page = "advisor"
    /\ phase = "loading"
    /\ LET setupData == ensureAuth(loggedIn, setup)
       IN  CASE setupData = "index.html" -> Redirect("index")
             [] setupData = "setup.html" -> Redirect("setup")
             [] OTHER -> Settle /\ chat' = "on"
    /\ UNCHANGED <<loggedIn, setup, requests, visit>>
    /\ UNCHANGED <<calVars, clockVars, themeVars, formVars, chatVars>>

\* The sign-in button of the landing page: simulateLogin.
SignIn ==
    /\ page = "index"
    /\ phase = "ready"
    /\ loggedIn' = "1"
    /\ Open("setup", "1", setup)
    /\ UNCHANGED <<setup, requests>>
    /\ UNCHANGED <<calVars, clockVars, themeVars, formVars, chatVars>>

\* The skip button of the setup page: navigateToAdvisor.
SkipSetup ==
    /\ page = "setup"
    /\ phase = "ready"
    /\ Open("advisor", loggedIn, setup)
    /\ UNCHANGED <<loggedIn, setup, requests>>
    /\ UNCHANGED <<calVars, clockVars, themeVars, formVars, chatVars>>

\* showTyping: a new indicator is appended and the variable holds it.
showTyping ==
    /\ typingShown' = typingShown + 1
    /\ typingIndicator' = "element"

\* hideTyping: the indicator the variable holds is removed.
hideTyping ==
    /\ typingShown' = IF typingIndicator = "element" THEN typingShown - 1 ELSE typingShown
    /\ typingIndicator' = "null"

\* appendMessage: a bubble of the role for the message of that number.
appendMessage(role, message, text) ==
    chatLog' = Append(chatLog, [role |-> role, id |-> message, text |-> text])

\* sendMessage leaving the composer enabled (a variant of sendMessage).
sendMessageComposerOn(message) ==
    /\ composerDisabled' = composerDisabled
    /\ appendMessage("user", message, "message")
    /\ showTyping
    /\ inflight' = inflight \cup {message}
    /\ requests' = requests + 1

\* sendMessage up to its await: the composer is disabled, the user bubble
\* and the typing indicator are shown, and the request is posted.
sendMessage(message) ==
    /\ composerDisabled' = TRUE
    /\ appendMessage("user", message, "message")
    /\ showTyping
    /\ inflight' = inflight \cup {message}
    /\ requests' = requests + 1

\* The send button or Ctrl/Cmd+Enter in the message input: handleSend with a
\* non-blank message.  A disabled control receives neither event.
SendMessage ==
    /\ page = "advisor"
    /\ phase = "ready"
    /\ chat = "on"
    /\ ~composerDisabled
    /\ requests < MaxRequests
    /\ sendMessage(requests + 1)
    /\ UNCHANGED <<page, phase, loggedIn, setup, chat, hops, visit>>
    /\ UNCHANGED <<calVars, clockVars, themeVars, formVars>>

\* The rest of sendMessage after a response that is ok: the reply bubble,
\* the calendar when the reply carries a schedule, then the finally block.
ReceiveReply ==
    /\ \E message \in inflight :
          /\ inflight' = inflight \ {message}
          /\ appendMessage("assistant", message, "reply")
    /\ hideTyping
    /\ composerDisabled' = FALSE
    /\ \/ UNCHANGED calVars
       \/ /\ \E k \in 0..MaxReplyEntries :
                \E tagged \in [1..k -> TaggedEntries(ConflictDays, RerenderTimes)] :
                    /\ InDayOrder(tagged)
                    /\ schedule' = ToSchedule(tagged)
          /\ renderCalendar(schedule')
    /\ UNCHANGED <<clockVars, siteVars, themeVars, formVars>>

\* The rest of sendMessage after a failed request or a response that is not
\* ok: the catch block, then the finally block.
ReceiveFailure ==
    /\ \E message \in inflight :
          /\ inflight' = inflight \ {message}
          /\ appendMessage("assistant", message, "failure")
    /\ hideTyping
    /\ composerDisabled' = FALSE
    /\ UNCHANGED <<calVars, clockVars, siteVars, themeVars, formVars>>

NextChat == SendMessage \/ ReceiveReply \/ ReceiveFailure

\* The advisor chat is running and nothing has been sent.
InitChat ==
    /\ SiteIdle
    /\ ChatIdle
    /\ CalendarIdle
    /\ ClockIdle
    /\ ThemeIdle
    /\ FormIdle

SpecChat == InitChat /\ [][NextChat]_vars

NextRouting == LoadIndex \/ LoadSetup \/ LoadSettings \/ LoadAdvisor

NextSite == NextRouting \/ SignIn \/ SkipSetup \/ NextChat

SpecRouting == InitRouting /\ [][NextRouting]_vars

SpecSite == InitRouting /\ [][NextSite]_vars

\* Every page load runs its scripts: a loading page settles or redirects.
SpecRoutingFair == SpecRouting /\ WF_vars(NextRouting)


\* ------------------------------------------------------------------- theme
ThemeValues == {"absent", "empty", "light", "dark", "other"}

\* prefersDark?.matches ? "dark" : "light"
SystemTheme(dark) == IF dark THEN "dark" ELSE "light"

\* resolveTheme returning whatever is stored (a variant of resolveTheme).
resolveThemeStored(stored, dark) ==
    IF stored \notin {"absent", "empty"} THEN stored ELSE SystemTheme(dark)

\* resolveTheme
resolveTheme(stored, dark) ==
    IF stored = "light" \/ stored = "dark" THEN stored ELSE SystemTheme(dark)

\* A page opens with any stored theme under any system preference.
InitTheme ==
    /\ themeStored \in ThemeValues
    /\ themeApplied = "unset"
    /\ systemDark \in BOOLEAN
    /\ themeStatus = ""
    /\ themeEvents = 0
    /\ CalendarIdle
    /\ ClockIdle
    /\ SiteIdle
    /\ FormIdle
    /\ ChatIdle

\* theme.js runs: applyTheme(resolveTheme(), { silent: true }).
LoadTheme ==
    /\ themeApplied = "unset"
    /\ themeApplied' = resolveTheme(themeStored, systemDark)
    /\ UNCHANGED <<themeStored, systemDark, themeStatus, themeEvents>>
    /\ UNCHANGED <<calVars, clockVars, siteVars, formVars, chatVars>>

\* A click on the theme toggle: toggleTheme.
ToggleTheme ==
    /\ themeApplied /= "unset"
    /\ themeEvents < MaxThemeEvents
    /\ LET next == IF themeApplied = "dark" THEN "light" ELSE "dark"
       IN  /\ themeStored' = next
           /\ themeApplied' = next
           /\ themeStatus' = next
    /\ themeEvents' = themeEvents + 1
    /\ UNCHANGED systemDark
    /\ UNCHANGED <<calVars, clockVars, siteVars, formVars, chatVars>>

\* The system colour scheme changes: onSystemThemeChange.
SystemThemeChange ==
    /\ themeApplied /= "unset"
    /\ themeEvents < MaxThemeEvents
    /\ systemDark' = ~systemDark
    /\ themeApplied' = IF themeStored \notin {"absent", "empty"}
                       THEN themeApplied
                       ELSE SystemTheme(systemDark')
    /\ themeEvents' = themeEvents + 1
    /\ UNCHANGED <<themeStored, themeStatus>>
    /\ UNCHANGED <<calVars, clockVars, siteVars, formVars, chatVars>>

\* The user moves to another page of the site: its document starts unthemed.
OpenPage ==
    /\ themeApplied /= "unset"
    /\ themeEvents < MaxThemeEvents
    /\ themeApplied' = "unset"
    /\ themeStatus' = ""
    /\ themeEvents' = themeEvents + 1
    /\ UNCHANGED <<themeStored, systemDark>>
    /\ UNCHANGED <<calVars, clockVars, siteVars, formVars, chatVars>>

NextTheme == LoadTheme \/ ToggleTheme \/ SystemThemeChange \/ OpenPage

SpecTheme == InitTheme /\ [][NextTheme]_vars


\* -------------------------------------------------------------- preferences
\* The days whose checkboxes the form offers here.
FormDays == {"mon", "wed"}

T0800 == <<"0", "8", ":", "0", "0">>

T1200 == <<"1", "2", ":", "0", "0">>

T1500 == <<"1", "5", ":", "0", "0">>

T1700 == <<"1", "7", ":", "0", "0">>

T1730 == <<"1", "7", ":", "3", "0">>

T2100 == <<"2", "1", ":", "0", "0">>

presetValues ==
    [morning |-> [from |-> T0800, to |-> T1200],
     noon    |-> [from |-> T1200, to |-> T1700],
     evening |-> [from |-> T1730, to |-> T2100]]

\* The preset buttons pressed here.
PresetKeys == {"noon"}

\* The values typed into a time input: empty, or a time of day.
TimeTexts == {<< >>, T0900, T1500}

\* The values typed into the credits input.
CreditTexts == {<< >>, <<"0">>, <<"1", "5">>}

\* The values of the graduation term select.
TermValues == {"", "fall-2026"}

\* The block of a time row created without one: createTimeRow's default.
DefaultBlock == [from |-> T0900, to |-> T1700]

\* The UTF-16 code unit of a character of a time value.
CharCode(c) == IF c = ":" THEN 58 ELSE 48 + DigitVal(c)

\* a < b on JavaScript strings: code unit by code unit, a proper prefix first.
RECURSIVE StrLt(_, _)
StrLt(a, b) ==
    IF b = << >> THEN FALSE
    ELSE IF a = << >> THEN TRUE
    ELSE IF Head(a) = Head(b) THEN StrLt(Tail(a), Tail(b))
    ELSE CharCode(Head(a)) < CharCode(Head(b))

\* gatherTimeBlocks rejecting from > to only (a variant of gatherTimeBlocks).
gatherTimeBlocksAllowsEqual(selectedDays, rows) ==
    LET Filled(day) == /\ day \in DOMAIN rows
                       /\ rows[day].from /= << >>
                       /\ rows[day].to /= << >>
        filled  == {day \in selectedDays : Filled(day)}
        flagged == {day \in filled : StrLt(rows[day].to, rows[day].from)}
    IN  [result  |-> [day \in filled |-> rows[day]],
         valid   |-> filled = selectedDays /\ flagged = {},
         flagged |-> flagged,
         cleared |-> filled \ flagged]

\* gatherTimeBlocks: the blocks gathered, whether every selected day has a
\* filled range with from < to, and the end inputs whose custom validity
\* message is set (flagged) or cleared.
gatherTimeBlocks(selectedDays, rows) ==
    LET Filled(day) == /\ day \in DOMAIN rows
                       /\ rows[day].from /= << >>
                       /\ rows[day].to /= << >>
        filled  == {day \in selectedDays : Filled(day)}
        flagged == {day \in filled : ~StrLt(rows[day].from, rows[day].to)}
    IN  [result  |-> [day \in filled |-> rows[day]],
         valid   |-> filled = selectedDays /\ flagged = {},
         flagged |-> flagged,
         cleared |-> filled \ flagged]

\* What gatherPayload returns when it finds an error.
NullPayload == Stored("null", NoStudent)

\* gatherPayload: the payload to store, or NullPayload.
gatherPayload(selectedDays, rows, creditText, term) ==
    LET parsed   == ParseInt(creditText)
        gathered == gatherTimeBlocks(selectedDays, rows)
        errors   == \/ parsed.nan
                    \/ parsed.v <= 0
                    \/ selectedDays = {}
                    \/ ~gathered.valid
                    \/ term = ""
    IN  IF errors
        THEN NullPayload
        ELSE Stored("payload",
                    [preferredDays |-> selectedDays,
                     timeBlocks    |-> gathered.result,
                     credits       |-> parsed.v,
                     gradTerm      |-> term])

\* form.reportValidity(): no required time input is empty and no control
\* holds a custom validity message.
FormValid ==
    /\ \A day \in DOMAIN timeRows :
          timeRows[day].from /= << >> /\ timeRows[day].to /= << >>
    /\ toInvalid = {}
    /\ ~guardInvalid

\* The student of resetDefaultsHandler.
DefaultStudent(term) ==
    [preferredDays |-> {"mon", "wed"},
     timeBlocks    |-> [day \in {"mon", "wed"} |-> [from |-> T0900, to |-> T1500]],
     credits       |-> 15,
     gradTerm      |-> IF term /= "" THEN term ELSE "fall-2026"]

\* The setup page with an empty form, or the settings page with the form
\* hydrated from the stored defaults.
InitSetup ==
    /\ page \in {"setup", "settings"}
    /\ phase = "ready"
    /\ loggedIn = "1"
    /\ setup = IF page = "setup"
               THEN Stored("absent", NoStudent)
               ELSE Stored("payload", DefaultStudent(""))
    /\ chat = "off"
    /\ requests = 0
    /\ hops = 0
    /\ visit = [page |-> page, loggedIn |-> loggedIn, setup |-> setup]
    /\ checked = setup.student.preferredDays
    /\ timeRows = setup.student.timeBlocks
    /\ credits = IF page = "setup" THEN << >> ELSE <<"1", "5">>
    /\ gradTerm = setup.student.gradTerm
    /\ toInvalid = {}
    /\ guardInvalid = FALSE
    /\ lastSubmit = "none"
    /\ CalendarIdle
    /\ ClockIdle
    /\ ThemeIdle
    /\ ChatIdle

\* The form of the setup or the settings page is shown.
FormShown == page \in {"setup", "settings"} /\ phase = "ready"

\* A click on a day checkbox: handleDayToggle.
ToggleDay ==
    /\ FormShown
    /\ \E day \in FormDays :
          IF day \in checked
          THEN /\ checked' = checked \ {day}
               /\ timeRows' = [d \in DOMAIN timeRows \ {day} |-> timeRows[d]]
               /\ toInvalid' = toInvalid \ {day}
          ELSE /\ checked' = checked \cup {day}
               /\ timeRows' = [d \in DOMAIN timeRows \cup {day} |->
                                 IF d = day THEN DefaultBlock ELSE timeRows[d]]
               /\ toInvalid' = toInvalid
    /\ lastSubmit' = "none"
    /\ UNCHANGED <<credits, gradTerm, guardInvalid>>
    /\ UNCHANGED <<calVars, clockVars, siteVars, themeVars, chatVars>>

\* The user changes the start or the end input of a time row.
EditTime ==
    /\ FormShown
    /\ \E day \in DOMAIN timeRows, text \in TimeTexts :
          \/ timeRows' = [timeRows EXCEPT ![day].from = text]
          \/ timeRows' = [timeRows EXCEPT ![day].to = text]
    /\ timeRows' /= timeRows
    /\ lastSubmit' = "none"
    /\ UNCHANGED <<checked, credits, gradTerm, toInvalid, guardInvalid>>
    /\ UNCHANGED <<calVars, clockVars, siteVars, themeVars, chatVars>>

\* The user changes the credits input or the graduation term.
EditField ==
    /\ FormShown
    /\ \/ \E text \in CreditTexts \ {credits} :
             credits' = text /\ gradTerm' = gradTerm
       \/ \E term \in TermValues \ {gradTerm} :
             gradTerm' = term /\ credits' = credits
    /\ lastSubmit' = "none"
    /\ UNCHANGED <<checked, timeRows, toInvalid, guardInvalid>>
    /\ UNCHANGED <<calVars, clockVars, siteVars, themeVars, chatVars>>

\* A click on a preset button: applyPreset.
ApplyPreset ==
    /\ FormShown
    /\ \E key \in PresetKeys :
          timeRows' = [day \in DOMAIN timeRows |-> presetValues[key]]
    /\ lastSubmit' = "none"
    /\ UNCHANGED <<checked, credits, gradTerm, toInvalid, guardInvalid>>
    /\ UNCHANGED <<calVars, clockVars, siteVars, themeVars, chatVars>>

\* The submit of the form: handleSubmit.
Submit ==
    /\ FormShown
    /\ IF ~FormValid
       THEN /\ lastSubmit' = "blocked"
            /\ UNCHANGED <<toInvalid, guardInvalid>>
            /\ UNCHANGED siteVars
       ELSE LET gathered == gatherTimeBlocks(checked, timeRows)
                payload  == gatherPayload(checked, timeRows, credits, gradTerm)
            IN  /\ toInvalid' = (toInvalid \ gathered.cleared) \cup gathered.flagged
                /\ IF payload = NullPayload
                   THEN /\ guardInvalid' = TRUE
                        /\ lastSubmit' = "rejected"
                        /\ UNCHANGED siteVars
                   ELSE /\ guardInvalid' = FALSE
                        /\ lastSubmit' = "saved"
                        /\ setup' = payload
                        /\ IF page = "setup"
                           THEN Open("advisor", loggedIn, payload)
                           ELSE UNCHANGED <<page, phase, chat, hops, visit>>
                        /\ UNCHANGED <<loggedIn, requests>>
    /\ UNCHANGED <<checked, timeRows, credits, gradTerm>>
    /\ UNCHANGED <<calVars, clockVars, themeVars, chatVars>>

\* A click on the reset button: resetDefaultsHandler.
ResetDefaults ==
    /\ FormShown
    /\ LET defaults == DefaultStudent(gradTerm)
       IN  /\ checked' = defaults.preferredDays
           /\ timeRows' = defaults.timeBlocks
           /\ credits' = <<"1", "5">>
           /\ gradTerm' = defaults.gradTerm
           /\ setup' = Stored("payload", defaults)
    /\ toInvalid' = {}
    /\ lastSubmit' = "none"
    /\ UNCHANGED guardInvalid
    /\ UNCHANGED <<page, phase, loggedIn, chat, requests, hops, visit>>
    /\ UNCHANGED <<calVars, clockVars, themeVars, chatVars>>

NextSetup ==
    ToggleDay \/ EditTime \/ EditField \/ ApplyPreset \/ Submit \/ ResetDefaults

SpecSetup == InitSetup /\ [][NextSetup]_vars


\* ------------------------------------------------------------ properties
\* Overlap of two intervals: a.start < b.end and b.start < a.end.
Overlap(a, b) == a.start < b.end /\ b.start < a.end

\* The indices of the events of a day.
OnDay(day) == {i \in 1..Len(events) : events[i].day = day}

\* The indices a full pairwise comparison marks.
PairwiseMarked ==
    {i \in 1..Len(events) :
        \E j \in OnDay(events[i].day) \ {i} : Overlap(events[i], events[j])}

\* No two events of the day overlap.
OverlapFree(day) ==
    \A i \in OnDay(day) : \A j \in OnDay(day) \ {i} : ~Overlap(events[i], events[j])

\* The parsed times of an entry pass the validation of renderCalendar.
ValidEntry(entry) ==
    LET start == parseTime(entry.from)
        end   == parseTime(entry.to)
    IN  ~start.nan /\ ~end.nan /\ start.v < end.v

\* C1: the sort-then-adjacent-pair scan marks exactly the events a full
\* pairwise comparison marks: an event ends with conflict = true iff its
\* interval overlaps that of another event of the same day.
C1_ScanEqualsPairwise ==
    view = "shell" =>
        \A i \in 1..Len(events) : events[i].conflict <=> i \in PairwiseMarked

\* C2: the flag detectConflicts returns is true iff some two events of one
\* day overlap, and the banner is shown exactly when it is true, that is iff
\* at least one rendered event is marked.
C2_AggregateFlag ==
    /\ banner <=> PairwiseMarked /= {}
    /\ banner <=> \E i \in 1..Len(blocks) : blocks[i].conflict

C2_Witness ==
    /\ view = "shell"
    /\ banner
    /\ \E d \in Days : Cardinality(OnDay(d)) >= 3
    /\ \E i \in 1..Len(events) : ~events[i].conflict

\* C3 as stated: an entry from "bad" to "10:00" is parsed with start 00:00
\* and rendered as an event spanning 00:00 to 10:00.
C3_BadStartIncluded ==
    view /= "initial" =>
        \A d \in Days :
            (\E k \in 1..Len(schedule[d]) :
                schedule[d][k] = [from |-> Bad, to |-> T1000])
            => \E i \in OnDay(d) : events[i].start = 0 /\ events[i].end = 600

\* C3 as amended: the start "bad" parses to NaN, the entry fails the
\* Number.isNaN check and is dropped: the day shows no event starting at
\* 00:00 and no more events than it has entries with another start.
C3_BadStartDropped ==
    /\ IsNaN(parseTime(Bad))
    /\ view /= "initial" =>
        \A d \in Days :
            (\E k \in 1..Len(schedule[d]) :
                schedule[d][k] = [from |-> Bad, to |-> T1000])
            => /\ \A i \in OnDay(d) : events[i].start /= 0
               /\ Cardinality(OnDay(d)) <=
                    Cardinality({k \in 1..Len(schedule[d]) :
                                    schedule[d][k].from /= Bad})

C3_Witness ==
    /\ view = "shell"
    /\ Len(schedule["tue"]) = 2
    /\ schedule["tue"][1] = [from |-> Bad, to |-> T1000]
    /\ Cardinality(OnDay("tue")) = 1

\* C4: every event that reaches conflict detection and layout has start <
\* end; an entry whose parsed start >= end, or whose start or end is NaN,
\* yields no event, no block and no mark: the events of a day are exactly
\* its valid entries, in order, and there is one block per event.
C4_OnlyValidEntriesRetained ==
    view /= "initial" =>
        /\ \A i \in 1..Len(events) :
              /\ events[i].start \in Int /\ events[i].end \in Int
              /\ events[i].start < events[i].end
        /\ Len(blocks) = Len(events)
        /\ \A d \in Days :
              LET kept == SelectSeq(schedule[d], ValidEntry)
                  mine == SelectSeq(events, LAMBDA e : e.day = d)
              IN  /\ Len(mine) = Len(kept)
                  /\ \A k \in 1..Len(kept) :
                        /\ Num(mine[k].start) = parseTime(kept[k].from)
                        /\ Num(mine[k].end) = parseTime(kept[k].to)

C4_Witness ==
    /\ view = "shell"
    /\ \E d \in Days :
          /\ Len(schedule[d]) = 2
          /\ schedule[d][1].from = schedule[d][1].to
          /\ schedule[d][1].from /= Bad
          /\ Cardinality(OnDay(d)) = 1

\* C5: whatever the order of the entries, a day none of whose events overlap
\* has no marked event, and when that holds of every day the flag is false.
C5_NoOverlapNoConflict ==
    view = "shell" =>
        /\ \A d \in Days :
              OverlapFree(d) => \A i \in OnDay(d) : ~events[i].conflict
        /\ (\A d \in Days : OverlapFree(d)) => ~banner

C5_Witness ==
    /\ view = "shell"
    /\ \E i, j, k \in 1..Len(events) :
          /\ i < j /\ j < k
          /\ events[i].day = events[j].day /\ events[j].day = events[k].day
          /\ events[k].end = events[j].start
          /\ events[j].end = events[i].start
    /\ \A d \in Days : OverlapFree(d)


\* C6: for events A and B of one day, within any event set: when A.end =
\* B.start and the day holds only A and B, neither is marked; when A.end =
\* B.start + 1 minute, both are marked and the flag is true.
C6_BoundaryMinute ==
    view = "shell" =>
        \A i \in 1..Len(events) : \A j \in OnDay(events[i].day) \ {i} :
            /\ (events[i].end = events[j].start /\ OnDay(events[i].day) = {i, j})
                  => ~events[i].conflict /\ ~events[j].conflict
            /\ events[i].end = events[j].start + 1
                  => events[i].conflict /\ events[j].conflict /\ banner

\* C7: no overlapping pair of events of one day has exactly one marked
\* member: if A is marked and overlaps B, B is marked too.
C7_Symmetric ==
    view = "shell" =>
        \A i \in 1..Len(events) : \A j \in OnDay(events[i].day) \ {i} :
            (Overlap(events[i], events[j]) /\ events[i].conflict)
                => events[j].conflict

\* The marks detectConflicts gives the events of one day when they are the
\* only events there are.
MarksAlone(day) ==
    LET mine == SelectSeq(events, LAMBDA e : e.day = day)
        fresh == [k \in 1..Len(mine) |-> [mine[k] EXCEPT !.conflict = FALSE]]
        alone == detectConflicts(fresh).events
    IN  [k \in 1..Len(alone) |-> alone[k].conflict]

\* C8: conflict detection runs per day: the marks of a day's events are those
\* the day would get alone, a marked event overlaps an event of its own day,
\* and a day of zero or one event has no marked event.
C8_PerDayIndependence ==
    view = "shell" =>
        \A d \in Days :
            LET mine == SelectSeq(events, LAMBDA e : e.day = d)
            IN  /\ [k \in 1..Len(mine) |-> mine[k].conflict] = MarksAlone(d)
                /\ \A i \in OnDay(d) :
                      events[i].conflict =>
                          \E j \in OnDay(d) \ {i} : Overlap(events[i], events[j])
                /\ Cardinality(OnDay(d)) <= 1 =>
                      \A i \in OnDay(d) : ~events[i].conflict

C8_Witness ==
    /\ view = "shell"
    /\ \E i, j, k \in 1..Len(events) :
          /\ events[i].day /= events[j].day
          /\ events[j].day = events[k].day /\ j /= k
          /\ Overlap(events[i], events[j]) /\ Overlap(events[i], events[k])
          /\ ~events[i].conflict
          /\ events[j].conflict /\ events[k].conflict

\* C9: for a non-empty set of retained events, calendarStart <= every start,
\* calendarEnd >= every end, both are multiples of 30, and the slots are
\* exactly calendarStart, calendarStart + 30, ..., calendarEnd - 30.
C9_GridBounds ==
    view = "shell" =>
        /\ \A i \in 1..Len(events) :
              calendarStart <= events[i].start /\ calendarEnd >= events[i].end
        /\ calendarStart % 30 = 0
        /\ calendarEnd % 30 = 0
        /\ Len(slots) * 30 = calendarEnd - calendarStart
        /\ \A k \in 1..Len(slots) : slots[k] = calendarStart + 30 * (k - 1)

C9_Witness ==
    /\ view = "shell"
    /\ Len(events) >= 2
    /\ \E i \in 1..Len(events) :
          /\ events[i].start % 30 /= 0
          /\ calendarStart < events[i].start
          /\ \A j \in 1..Len(events) : events[i].start <= events[j].start
    /\ \E i \in 1..Len(events) :
          /\ events[i].end % 30 /= 0
          /\ calendarEnd > events[i].end
          /\ \A j \in 1..Len(events) : events[i].end >= events[j].end

\* C10: every retained event has one block, in the column 1..7 of its day in
\* the order sun..sat, from row floor((start - calendarStart)/30) + 1 to row
\* ceil((end - calendarStart)/30) + 1; events of one day share the column
\* whatever their marks, and equal day, start and end give equal placement.
C10_Placement ==
    view = "shell" =>
        /\ Len(blocks) = Len(events)
        /\ \A i \in 1..Len(events) :
              LET b == blocks[i]
                  e == events[i]
              IN  /\ b.gridColumn \in 1..7
                  /\ <<"sun", "mon", "tue", "wed", "thu", "fri", "sat">>[b.gridColumn] = e.day
                  /\ 30 * (b.startRow - 1) <= e.start - calendarStart
                  /\ e.start - calendarStart < 30 * b.startRow
                  /\ 30 * (b.endRow - 2) < e.end - calendarStart
                  /\ e.end - calendarStart <= 30 * (b.endRow - 1)
        /\ \A i, j \in 1..Len(events) :
              /\ events[i].day = events[j].day
                    => blocks[i].gridColumn = blocks[j].gridColumn
              /\ (/\ events[i].day = events[j].day
                  /\ events[i].start = events[j].start
                  /\ events[i].end = events[j].end)
                    => /\ blocks[i].startRow = blocks[j].startRow
                       /\ blocks[i].endRow = blocks[j].endRow

C10_Witness ==
    /\ view = "shell"
    /\ \E i, j \in 1..Len(events) :
          /\ i /= j
          /\ events[i].day = "sat" /\ events[j].day = "sat"
          /\ events[i].conflict /\ events[j].conflict
          /\ blocks[i].gridColumn = 7 /\ blocks[j].gridColumn = 7
          /\ events[i].start % 30 /= 0
          /\ events[j].end % 30 /= 0
          /\ blocks[j].startRow > 1


\* C11: when no entry of the payload is retained (no entries, or every entry
\* dropped), renderCalendar shows the placeholder, with no slots, no blocks
\* and no banner; otherwise it builds the grid.
C11_EmptyPlaceholder ==
    view /= "initial" =>
        /\ view = "placeholder" <=>
              \A d \in Days : \A k \in 1..Len(schedule[d]) :
                  ~ValidEntry(schedule[d][k])
        /\ view = "placeholder" =>
              /\ events = << >>
              /\ slots = << >>
              /\ blocks = << >>
              /\ ~banner

C11_Witness ==
    /\ view = "placeholder"
    /\ \E d \in Days :
          /\ Len(schedule[d]) = 2
          /\ schedule[d][1].from = Bad
          /\ schedule[d][2].from = schedule[d][2].to
          /\ schedule[d][2].from /= Bad

\* s starts, after white space and at most one sign, with a decimal digit.
StartsWithNumber(s) ==
    \E k \in 1..Len(s) :
        /\ s[k] \in Digits
        /\ \A j \in 1..(k - 2) : s[j] = " "
        /\ k > 1 => s[k - 1] \in {" ", "-", "+"}

\* The positions of the colons of s.
Colons(s) == {i \in 1..Len(s) : s[i] = ":"}

\* The text before the first colon.
HourText(s) ==
    IF Colons(s) = {} THEN s
    ELSE SubSeq(s, 1, (CHOOSE i \in Colons(s) : \A j \in Colons(s) : i <= j) - 1)

\* The text between the first colon and the second one (or the end).
MinuteText(s) ==
    LET first == CHOOSE i \in Colons(s) : \A j \in Colons(s) : i <= j
        later == {i \in Colons(s) : i > first}
        stop  == IF later = {} THEN Len(s) + 1
                 ELSE CHOOSE i \in later : \A j \in later : i <= j
    IN  SubSeq(s, first + 1, stop - 1)

\* C12 as stated: parseTime returns an integer for every input string, a
\* non-numeric component counting as 0.
C12_AlwaysInteger ==
    clockPc = "parsed" =>
        /\ ~IsNaN(clockOut)
        /\ (\A i \in 1..Len(clockText) : clockText[i] = "b") => clockOut = Num(0)

\* C12 as amended: parseTime never fails; it returns NaN exactly when the
\* hour text, or the minute text of a string with a colon, does not start
\* with a number, and an integer otherwise; only a missing minute component
\* (no colon) contributes 0.
C12_NonNumericIsNaN ==
    clockPc = "parsed" =>
        /\ clockOut.nan \in BOOLEAN
        /\ clockOut.v \in Int
        /\ clockOut.nan <=>
              ~(/\ StartsWithNumber(HourText(clockText))
                /\ Colons(clockText) /= {} => StartsWithNumber(MinuteText(clockText)))
        /\ (~clockOut.nan /\ Colons(clockText) = {}) => clockOut.v % 60 = 0
        /\ clockText = <<"1", "5">> => clockOut = Num(900)
        /\ clockText = <<"1", ":", "5">> => clockOut = Num(65)
        /\ clockText = <<"-", "1", ":", "5">> => clockOut = Num(-55)
        /\ clockText = <<"1", ":", "5", "b">> => clockOut = Num(65)

C12_Witness ==
    /\ clockPc = "parsed"
    /\ clockText = <<"1", ":", "b">>
    /\ IsNaN(clockOut)

\* C13: for every minute value x of a day, formatTime(x) is two digits, a
\* colon and two digits, and parseTime(formatTime(x)) = x.
C13_RoundTrip ==
    /\ clockPc \in {"text", "parsed"} =>
          /\ Len(clockText) = 5
          /\ clockText[3] = ":"
          /\ \A i \in {1, 2, 4, 5} : clockText[i] \in Digits
          /\ DigitVal(clockText[1]) * 10 + DigitVal(clockText[2]) = clockIn \div 60
          /\ DigitVal(clockText[4]) * 10 + DigitVal(clockText[5]) = clockIn % 60
    /\ clockPc = "parsed" => clockOut = Num(clockIn)

C13_Witness ==
    /\ clockPc = "parsed"
    /\ clockIn = 545
    /\ clockText = <<"0", "9", ":", "0", "5">>
    /\ clockOut = Num(545)


\* C14: for a payload whose from and to are digits separated by ':', every
\* start and end renderCalendar retains and hands to formatTime is a time of
\* day in [0, 1440).
C14_TimesWithinDay ==
    view = "shell" =>
        \A i \in 1..Len(events) :
            /\ 0 <= events[i].start /\ events[i].start < 1440
            /\ 0 <= events[i].end /\ events[i].end < 1440


\* C16: after any sequence of renderCalendar calls the display is that of the
\* latest payload alone: the events are its valid entries, their marks are
\* those detectConflicts gives these events afresh, the blocks, the slots and
\* the banner belong to these events, and nothing else is shown.
C16_LatestPayloadOnly ==
    view /= "initial" =>
        /\ \A d \in Days :
              LET kept == SelectSeq(schedule[d], ValidEntry)
                  mine == SelectSeq(events, LAMBDA e : e.day = d)
              IN  /\ Len(mine) = Len(kept)
                  /\ \A k \in 1..Len(kept) :
                        /\ Num(mine[k].start) = parseTime(kept[k].from)
                        /\ Num(mine[k].end) = parseTime(kept[k].to)
        /\ \A d \in Days :
              LET mine == SelectSeq(events, LAMBDA e : e.day = d)
              IN  [k \in 1..Len(mine) |-> mine[k].conflict] = MarksAlone(d)
        /\ banner <=> \E i \in 1..Len(events) : events[i].conflict
        /\ Len(blocks) = Len(events)
        /\ \A i \in 1..Len(events) :
              /\ blocks[i].conflict = events[i].conflict
              /\ DAY_ORDER[blocks[i].gridColumn] = events[i].day
        /\ view = "placeholder" <=> events = << >>
        /\ events = << >> => slots = << >>
        /\ events /= << >> =>
              /\ slots /= << >>
              /\ \A i \in 1..Len(events) :
                    /\ slots[1] <= events[i].start
                    /\ slots[Len(slots)] + 30 >= events[i].end
              /\ \E i \in 1..Len(events) : events[i].start < slots[1] + 30
              /\ \E i \in 1..Len(events) : events[i].end > slots[Len(slots)]

C16_Witness ==
    /\ calls = 2
    /\ view = "shell"
    /\ Len(events) = 1
    /\ ~banner


\* The orders in which n events can be supplied.
Orders(n) == {p \in [1..n -> 1..n] : \A a, b \in 1..n : p[a] = p[b] => a = b}

\* C20: the marks and the returned flag do not depend on the order of the
\* events: supplied in any other order, each event gets the mark it has, also
\* when events of a day share their start.
C20_OrderIndependent ==
    view = "shell" =>
        \A p \in Orders(Len(events)) :
            LET supplied == [k \in 1..Len(events) |->
                                [events[p[k]] EXCEPT !.conflict = FALSE]]
                detected == detectConflicts(supplied)
            IN  /\ \A k \in 1..Len(events) :
                      detected.events[k].conflict = events[p[k]].conflict
                /\ detected.conflictFound = banner

\* localStorage holds what ensureAuth asks for.
Authorised == loggedIn = "1" /\ setup.kind \notin {"absent", "empty"}

\* C17: the chat logic of the advisor page runs, and a request goes to the
\* backend, only when localStorage.loggedIn is "1" and localStorage.setup is
\* a non-empty string; a load of the advisor page without them redirects to
\* index.html when loggedIn is not "1" and to setup.html when loggedIn is "1"
\* and the setup is missing, starts no chat and sends no request.
C17_ChatOnlyWhenAuthorised ==
    /\ [](chat = "on" => page = "advisor" /\ Authorised)
    /\ [](requests > 0 => chat = "on" /\ Authorised)
    /\ [][requests' /= requests => chat = "on" /\ page = "advisor" /\ Authorised]_vars
    /\ [][(page = "advisor" /\ phase = "loading") =>
            IF loggedIn /= "1"
            THEN page' = "index" /\ chat' = "off" /\ requests' = requests
            ELSE IF setup.kind \in {"absent", "empty"}
            THEN page' = "setup" /\ chat' = "off" /\ requests' = requests
            ELSE page' = "advisor" /\ chat' = "on"]_vars

\* C17 witness: a visit of the advisor page has started the chat, which
\* has sent a request to the backend.
C17_Witness ==
    /\ visit.page = "advisor"
    /\ chat = "on"
    /\ requests > 0
    /\ Authorised

\* The visit began on the landing page.
FromLanding == visit.page = "index"

C19_StoredEqualsApplied ==
    themeApplied /= "unset" =>
        /\ themeApplied \in {"light", "dark"}
        /\ themeStored /= "absent" => themeStored = themeApplied
        /\ themeStored = "absent" => themeApplied = SystemTheme(systemDark)

\* C19 as amended: the applied theme is "light" or "dark"; whenever
\* localStorage.theme is "light" or "dark" it equals the applied theme;
\* while it is unset the applied theme is the system preference; a toggle
\* flips the applied theme and stores it, and a system change leaves the
\* applied theme alone once a non-empty value is stored.
C19_ValidStoredEqualsApplied ==
    /\ [](themeApplied /= "unset" =>
            /\ themeApplied \in {"light", "dark"}
            /\ themeStored \in {"light", "dark"} => themeStored = themeApplied
            /\ themeStored = "absent" => themeApplied = SystemTheme(systemDark))
    /\ [][(themeApplied /= "unset" /\ themeStored' /= themeStored) =>
            /\ themeApplied' \in {"light", "dark"} \ {themeApplied}
            /\ themeStored' = themeApplied']_vars
    /\ [][(systemDark' /= systemDark /\ themeStored \notin {"absent", "empty"}) =>
            themeApplied' = themeApplied]_vars

\* C19 witness: after a toggle and a system change the stored override is
\* applied against the system preference.
C19_Witness ==
    /\ themeEvents >= 2
    /\ themeStored \in {"light", "dark"}
    /\ themeApplied = themeStored
    /\ themeApplied /= SystemTheme(systemDark)
    /\ themeStatus = themeApplied

\* The range of a day is unusable: a field is empty, or from >= to.
BadRange(block) ==
    \/ block.from = << >>
    \/ block.to = << >>
    \/ ~StrLt(block.from, block.to)

\* A selected day of the form has an unusable range.
FormHasBadRange == \E day \in checked : BadRange(timeRows[day])

\* C15: while a selected day of the form has a range with from >= to or an
\* empty field, gatherTimeBlocks reports valid = false and gatherPayload
\* returns null; no submit stores a payload from such a form, and the
\* payload in localStorage.setup never has a selected day with such a range.
C15_BadRangeRejected ==
    /\ []((FormShown /\ FormHasBadRange) =>
            /\ ~gatherTimeBlocks(checked, timeRows).valid
            /\ gatherPayload(checked, timeRows, credits, gradTerm) = NullPayload)
    /\ [](setup.kind = "payload" =>
            \A day \in setup.student.preferredDays :
                /\ day \in DOMAIN setup.student.timeBlocks
                /\ ~BadRange(setup.student.timeBlocks[day]))
    /\ [][(FormHasBadRange /\ lastSubmit' /= "none") =>
            (lastSubmit' /= "saved" /\ setup' = setup)]_vars

\* C15 witness: on the settings page a submit was rejected for a day whose
\* end equals its start while the other day's range is fine, and the stored
\* payload is still the earlier one.
C15_Witness ==
    /\ page = "settings"
    /\ lastSubmit = "rejected"
    /\ \E day \in checked :
          /\ timeRows[day].from /= << >>
          /\ timeRows[day].from = timeRows[day].to
          /\ day \in toInvalid
    /\ \E day \in checked : ~BadRange(timeRows[day])
    /\ setup.kind = "payload"
    /\ setup.student.timeBlocks /= [day \in checked |-> timeRows[day]]

\* C24: every block fits inside the grid: with N slots, where
\* N * 30 = calendarEnd - calendarStart, every block has
\* 1 <= startRow < endRow <= N + 1.
C24_BlocksInsideGrid ==
    view = "shell" =>
        LET N == Len(slots)
        IN  /\ N * 30 = calendarEnd - calendarStart
            /\ Len(blocks) = Len(events)
            /\ \A i \in 1..Len(blocks) :
                  /\ 1 <= blocks[i].startRow
                  /\ blocks[i].startRow < blocks[i].endRow
                  /\ blocks[i].endRow <= N + 1

\* C24 witness: a block that starts below the first row and ends off the
\* slot boundary reaches the last row line of the grid, and another block
\* starts off the slot boundary in the first row and ends above the last.
C24_Witness ==
    /\ view = "shell"
    /\ \E i, j \in 1..Len(blocks) :
          /\ events[i].end % 30 /= 0
          /\ blocks[i].startRow > 1
          /\ blocks[i].endRow = Len(slots) + 1
          /\ events[j].start % 30 /= 0
          /\ blocks[j].startRow = 1
          /\ blocks[j].endRow < Len(slots) + 1

\* C23: from every starting page and every content of localStorage.loggedIn
\* and localStorage.setup, the automatic redirects of the page guards end
\* after at most two redirects on a page that stays put: the visit
\* eventually rests for good, and no guard redirects a second time to a
\* page already left.
C23_RoutingTerminates ==
    /\ <>[](phase = "ready")
    /\ [](hops <= 2 /\ hops < MaxHops)
    /\ [][phase = "ready" => (page' = page /\ phase' = "ready")]_vars
    /\ [][(phase = "loading" /\ page' /= page) =>
            (hops' = hops + 1 /\ page' /= visit.page)]_vars

\* C23 witness: a visit of the setup page with a stored payload and a
\* loggedIn that is not "1" was sent to the advisor and from there to the
\* landing page, where it rests.
C23_Witness ==
    /\ visit.page = "setup"
    /\ visit.loggedIn = "other"
    /\ visit.setup.kind = "payload"
    /\ hops = 2
    /\ page = "index"
    /\ phase = "ready"

\* C21: the composer is disabled exactly while a request is pending: a send
\* needs an enabled composer and disables it, at most one request is
\* pending, the typing indicator is shown exactly while one is pending, and
\* the chat log pairs every message with its outcome before the next
\* message, in the order the messages were sent.
C21_ComposerDisabledWhilePending ==
    /\ [](composerDisabled <=> inflight /= {})
    /\ [](Cardinality(inflight) <= 1)
    /\ [](typingShown = Cardinality(inflight))
    /\ [](typingIndicator = "element" <=> inflight /= {})
    /\ [](\A i \in 1..Len(chatLog) :
            /\ chatLog[i].id = (i + 1) \div 2
            /\ chatLog[i].role = IF i % 2 = 1 THEN "user" ELSE "assistant")
    /\ [][requests' /= requests => (~composerDisabled /\ composerDisabled')]_vars
    /\ [][inflight' /= {} \/ inflight = {} \/ ~composerDisabled']_vars

\* C21 witness: a message that failed, one that was answered and a third
\* that is pending, the composer being disabled for the third time.
C21_Witness ==
    /\ requests = 3
    /\ Len(chatLog) = 5
    /\ chatLog[2].text = "failure"
    /\ chatLog[4].text = "reply"
    /\ view = "shell"
    /\ inflight = {3}
    /\ composerDisabled
    /\ typingShown = 1

\* Every check of gatherPayload passes on the fields as they are.
FieldsPass == gatherPayload(checked, timeRows, credits, gradTerm) /= NullPayload

\* C22: a submit of a form whose fields pass every check stores the payload
\* in localStorage.setup, on the setup and on the settings page, whatever
\* submits were rejected before.
C22_ValidSubmitStores ==
    [][(FormShown /\ FieldsPass /\ lastSubmit' /= "none") =>
          /\ lastSubmit' = "saved"
          /\ setup' = gatherPayload(checked, timeRows, credits, gradTerm)]_vars

====
